---- MODULE Spec2Model ----
(***************************************************************************)
(* FSSpecStateStoreManager (src/src/meltano_state_backend_fsspec/manager.py)*)
(* as a state machine: the storage location shared by all callers, and the *)
(* position of each caller inside the operation it is running.            *)
(*                                                                         *)
(* Storage follows the local backend: a directory per state_id holding    *)
(* state.json and lock; open("w") creates or truncates the file at once    *)
(* and the text lands when the writer is closed.                           *)
(*                                                                         *)
(* Time.  The lock file holds str(utc_now()) and is_locked compares         *)
(* utc_now() with float(text) + lock_timeout_seconds.  The model keeps,    *)
(* for a lock file, its age utc_now() - float(text) in whole seconds: Tick *)
(* lets one second pass.  Ages above lock_timeout_seconds are all stale    *)
(* alike, so the age stops growing at MaxAge.                              *)
(***************************************************************************)
EXTENDS Integers, Sequences, FiniteSets, TLC

\* ------------------------------------------------------------------ bounds
Callers == {"c1", "c2"}
StateIds == {"job1", "job2"}
\* lock_timeout_seconds the manager is constructed with (manager.py:72, :91)
lock_timeout_seconds == 2
\* the retry_seconds values a caller may pass to acquire_lock
MaxRetry == 2
\* lock_retry_seconds the manager is constructed with (manager.py:73, :92)
lock_retry_seconds == 1
\* sleeps recorded per acquisition; further sleeps happen but are not recorded
MaxPolls == 3

MaxAge == lock_timeout_seconds + 1
RetryChoices == 1..MaxRetry
PartialStates == {"p1", "p2"}
CompletedStates == {"k1", "k2"}
\* failures the code inside a protected section may raise
SectionFailures == {"KeyError", "RuntimeError"}

VARIABLES
    baseExists,   \* self.path exists on the backend
    dir,          \* dir[s]: the directory <base>/<s> exists
    lockFile,     \* lockFile[s]: "absent", "empty" (opened for writing, no text yet), "written"
    lockAge,      \* lockAge[s]: utc_now() - float(text of <s>/lock), 0 unless written
    stateFile,    \* stateFile[s]: text of <s>/state.json, NoFile if absent
    pc,           \* pc[c]: where caller c stands in the operation it runs
    sid,          \* sid[c]: the state_id argument of that operation
    retry,        \* retry[c]: the retry_seconds argument of acquire_lock
    timer,        \* timer[c]: seconds left of the sleep(retry_seconds) c is in
    trues,        \* trues[c]: polls of this acquisition that returned True
    sleeps,       \* sleeps[c]: arguments of the sleep calls of this acquisition
    own,          \* own[c]: seconds since c wrote the lock it holds
    ret,          \* ret[c]: outcome of the last operation c completed
    calm,         \* no step so far left the low-contention regime
    setlog,       \* setlog[s]: the states given to set for s since s was last
                  \* deleted, oldest first, the latest two kept
    buf           \* buf[c]: the text in the buffer of the state.json writer c
                  \* has open, <<>> if it has none open

fs == <<baseExists, dir, lockFile, lockAge, stateFile>>
vars == <<baseExists, dir, lockFile, lockAge, stateFile,
          pc, sid, retry, timer, trues, sleeps, own, ret, calm, setlog, buf>>

\* ------------------------------------------------------------ pure helpers
\* a file that does not exist, and a file holding a text (<<>> when empty)
NoFile == [nofile |-> TRUE]
File(text) == [text |-> text]
\* Python's None
None == [none |-> TRUE]

\* outcomes of an operation, as the caller sees them
Returned(op, v, line) == [op |-> op, kind |-> "return", val |-> v, at |-> line]
Raised(op, e) == [op |-> op, kind |-> "raise", val |-> e, at |-> 0]
NoCall == [op |-> "none", kind |-> "none", val |-> "none", at |-> 0]

Min(a, b) == IF a < b THEN a ELSE b

\* the log of set calls after one more call
Logged(log, state) == IF log = <<>> THEN <<state>> ELSE <<log[Len(log)], state>>

\* utc_now() > float(reader.read()) + timeout, with age = utc_now() - float(text)
LockExpired_noTimeout(age, timeout) == age > 0
LockExpired_inclusive(age, timeout) == age >= timeout
LockExpired(age, timeout) == age > timeout

\* MeltanoState values, and the pair state.json() / MeltanoState.from_file of
\* meltano.core.state_store: the document holds the two state mappings and
\* not the state_id, which from_file takes from its argument
MeltanoStates ==
    [state_id : StateIds, partial_state : PartialStates,
     completed_state : CompletedStates]

\* the JSON text of one mapping, character by character; mappings differ in
\* the length of their text
width == "k1" :> 1 @@ "k2" :> 2 @@ "p1" :> 1 @@ "p2" :> 1
dumps(v) == [i \in 1..width[v] |-> <<v, i>>]
json(state) == dumps(state.completed_state) \o dumps(state.partial_state)

\* json.load accepts a text that is one complete document and nothing else
Decodable(text) ==
    \E k \in CompletedStates, q \in PartialStates : text = dumps(k) \o dumps(q)
from_file(state_id, text) ==
    LET k == text[1][1]
        q == text[width[k] + 1][1]
    IN  [state_id |-> state_id, partial_state |-> q, completed_state |-> k]

\* a writer opened with "w" writes its text at offset 0 of the file as it is
\* when the text is flushed: what lies beyond the text stays
Overwrite(old, new) == new \o SubSeq(old, Len(new) + 1, Len(old))

\* failures of a backend read other than FileNotFoundError
ReadFailures == {"PermissionError", "ConnectionError"}

\* get_state_ids() without a pattern: the children of the base location that
\* hold a state.json; nothing if the base location does not exist
get_state_ids ==
    IF ~baseExists THEN {}
    ELSE {s \in StateIds : dir[s] /\ stateFile[s] # NoFile}

\* the name of a state_id directory, character by character
name ==
    "job1" :> <<"j", "o", "b", "1">> @@ "job2" :> <<"j", "o", "b", "2">>

\* glob matching of one path component: "*" stands for any run of
\* characters, "?" for one character, anything else for itself
Match_literal(pat, n) == pat = n
RECURSIVE Match(_, _)
Match(pat, n) ==
    IF pat = <<>> THEN n = <<>>
    ELSE IF Head(pat) = "*"
         THEN Match(Tail(pat), n) \/ (n # <<>> /\ Match(pat, Tail(n)))
         ELSE /\ n # <<>>
              /\ Head(pat) = "?" \/ Head(pat) = Head(n)
              /\ Match(Tail(pat), Tail(n))

\* a Python str with the given characters; Str(<<>>) is the empty string
Str(text) == [str |-> text]

\* the patterns given to get_state_ids
Patterns ==
    { Str(<<>>), Str(<<"*">>), Str(<<"j", "o", "b", "1">>),
      Str(<<"j", "o", "b", "*">>), Str(<<"*", "2">>),
      Str(<<"j", "o", "b", "?">>), Str(<<"j", "o", "b">>), Str(<<"x", "*">>) }

\* "if pattern": false for None and for the empty string
Truthy(v) == v # None /\ v # Str(<<>>)

\* the state_ids whose name a pattern matches
Matching == [pattern \in Patterns |-> {s \in StateIds : Match(pattern.str, name[s])}]

\* self.path.iterdir() and self.path.glob(pattern): children of the base
\* location, which are the state_id directories
iterdir == {s \in StateIds : dir[s]}
glob(pattern) == {s \in Matching[pattern] : dir[s]}

\* get_state_ids(pattern)
get_state_ids_unfiltered(pattern) ==
    IF ~baseExists THEN {}
    ELSE IF Truthy(pattern) THEN glob(pattern) ELSE iterdir
get_state_ids_pattern(pattern) ==
    IF ~baseExists THEN {}
    ELSE {s \in (IF Truthy(pattern) THEN glob(pattern) ELSE iterdir) :
             stateFile[s] # NoFile}

\* the callers whose last is_locked poll has read the lock and who have not
\* yet finished the step that poll leads to (reclaim, or open and write)
Window == {"acq_reclaim", "acq_open", "acq_write", "il_reclaim"}

\* caller d steps on state_id s without falling into another caller's window
Undisturbed(d, s) ==
    calm /\ ~\E c \in Callers \ {d} : pc[c] \in Window /\ sid[c] = s

\* lock_path.fs.rm_file(lock_path.path) with FileNotFoundError, OSError suppressed
rm_lock_skipped(s) ==
    /\ lockFile' = lockFile
    /\ lockAge' = lockAge
rm_lock(s) ==
    /\ lockFile' = [lockFile EXCEPT ![s] = "absent"]
    /\ lockAge' = [lockAge EXCEPT ![s] = 0]

\* --------------------------------------------------------------------- Init
Init ==
    /\ baseExists \in BOOLEAN
    /\ dir = [s \in StateIds |-> FALSE]
    /\ lockFile = [s \in StateIds |-> "absent"]
    /\ lockAge = [s \in StateIds |-> 0]
    /\ stateFile = [s \in StateIds |-> NoFile]
    /\ pc = [c \in Callers |-> "idle"]
    /\ sid = [c \in Callers |-> CHOOSE s \in StateIds : TRUE]
    /\ retry = [c \in Callers |-> 1]
    /\ timer = [c \in Callers |-> 0]
    /\ trues = [c \in Callers |-> 0]
    /\ sleeps = [c \in Callers |-> <<>>]
    /\ own = [c \in Callers |-> 0]
    /\ ret = [c \in Callers |-> NoCall]
    /\ calm = TRUE
    /\ setlog = [s \in StateIds |-> <<>>]
    /\ buf = [c \in Callers |-> <<>>]

\* ------------------------------------------------------------ lock protocol
\* acquire_lock(state_id, retry_seconds=r) up to the first poll: self.mkdir
acquire_lock_noMkdir(c, s, r) ==
    /\ pc[c] = "idle"
    /\ pc' = [pc EXCEPT ![c] = "acq_poll"]
    /\ sid' = [sid EXCEPT ![c] = s]
    /\ retry' = [retry EXCEPT ![c] = r]
    /\ timer' = [timer EXCEPT ![c] = 0]
    /\ trues' = [trues EXCEPT ![c] = 0]
    /\ sleeps' = [sleeps EXCEPT ![c] = <<>>]
    /\ ret' = [ret EXCEPT ![c] = NoCall]
    /\ calm' = Undisturbed(c, s)
    /\ UNCHANGED <<fs, own, setlog, buf>>
acquire_lock(c, s, r) ==
    /\ pc[c] = "idle"
    /\ baseExists' = TRUE
    /\ dir' = [dir EXCEPT ![s] = TRUE]
    /\ pc' = [pc EXCEPT ![c] = "acq_poll"]
    /\ sid' = [sid EXCEPT ![c] = s]
    /\ retry' = [retry EXCEPT ![c] = r]
    /\ timer' = [timer EXCEPT ![c] = 0]
    /\ trues' = [trues EXCEPT ![c] = 0]
    /\ sleeps' = [sleeps EXCEPT ![c] = <<>>]
    /\ ret' = [ret EXCEPT ![c] = NoCall]
    /\ calm' = Undisturbed(c, s)
    /\ UNCHANGED <<lockFile, lockAge, stateFile, own, setlog>>
    /\ UNCHANGED buf

\* acquire_lock(state_id) without retry_seconds: the parameter is
\* keyword-only and has no default, so the call raises TypeError before the
\* body (and its finally clause) runs; self.lock_retry_seconds is not read
acquire_lock_default(c, s) ==
    /\ pc[c] = "idle"
    /\ sid' = [sid EXCEPT ![c] = s]
    /\ ret' = [ret EXCEPT ![c] = Raised("acquire_lock", "TypeError")]
    /\ UNCHANGED <<fs, pc, retry, timer, trues, sleeps, own, calm, setlog, buf>>

\* the argument of sleep in acquire_lock: its retry_seconds parameter
sleep_seconds_configured(c) == lock_retry_seconds
sleep_seconds(c) == retry[c]

\* while self.is_locked(state_id): sleep(retry_seconds)  -- one poll
acquire_poll(c) ==
    /\ pc[c] = "acq_poll"
    /\ timer[c] = 0
    /\ LET s == sid[c] IN
       /\ CASE lockFile[s] = "absent" ->
                 \* FileNotFoundError: is_locked returns False
                 /\ pc' = [pc EXCEPT ![c] = "acq_open"]
                 /\ calm' = Undisturbed(c, s)
                 /\ UNCHANGED <<timer, trues, sleeps, ret>>
            [] lockFile[s] = "empty" ->
                 \* float("") raises ValueError, which leaves acquire_lock
                 /\ pc' = [pc EXCEPT ![c] = "acq_finally"]
                 /\ ret' = [ret EXCEPT ![c] = Raised("acquire_lock", "ValueError")]
                 /\ calm' = FALSE
                 /\ UNCHANGED <<timer, trues, sleeps>>
            [] lockFile[s] = "written" /\ LockExpired(lockAge[s], lock_timeout_seconds) ->
                 /\ pc' = [pc EXCEPT ![c] = "acq_reclaim"]
                 /\ calm' = Undisturbed(c, s)
                 /\ UNCHANGED <<timer, trues, sleeps, ret>>
            [] OTHER ->
                 \* is_locked returns True: sleep(retry_seconds)
                 /\ timer' = [timer EXCEPT ![c] = sleep_seconds(c)]
                 /\ trues' = [trues EXCEPT ![c] = Min(trues[c] + 1, MaxPolls)]
                 /\ sleeps' = [sleeps EXCEPT ![c] =
                        IF Len(sleeps[c]) < MaxPolls THEN Append(sleeps[c], sleep_seconds(c))
                        ELSE sleeps[c]]
                 /\ calm' = Undisturbed(c, s)
                 /\ UNCHANGED <<pc, ret>>
    /\ UNCHANGED <<fs, sid, retry, own, setlog>>
    /\ UNCHANGED buf

\* is_locked, stale branch: lock_path.fs.rm_file(lock_path.path); return False
\* (manager.py:154-157), for the poll of acquire_lock and for a direct call
reclaim(c) ==
    /\ pc[c] \in {"acq_reclaim", "il_reclaim"}
    /\ rm_lock(sid[c])
    /\ IF pc[c] = "acq_reclaim"
       THEN /\ pc' = [pc EXCEPT ![c] = "acq_open"]
            /\ ret' = ret
       ELSE /\ pc' = [pc EXCEPT ![c] = "idle"]
            /\ ret' = [ret EXCEPT ![c] = Returned("is_locked", FALSE, 157)]
    /\ calm' = Undisturbed(c, sid[c])
    /\ UNCHANGED <<baseExists, dir, stateFile, sid, retry, timer, trues, sleeps,
                   own, setlog>>
    /\ UNCHANGED buf

\* with lock_path.open("w") as writer:  -- the file is created or truncated
acquire_open_exclusive(c) ==
    /\ pc[c] = "acq_open"
    /\ LET s == sid[c] IN
       IF dir[s] /\ lockFile[s] = "absent"
       THEN /\ lockFile' = [lockFile EXCEPT ![s] = "empty"]
            /\ lockAge' = [lockAge EXCEPT ![s] = 0]
            /\ pc' = [pc EXCEPT ![c] = "acq_write"]
            /\ calm' = Undisturbed(c, s)
            /\ ret' = ret
       ELSE /\ pc' = [pc EXCEPT ![c] = "acq_finally"]
            /\ ret' = [ret EXCEPT ![c] = Raised("acquire_lock", "FileExistsError")]
            /\ calm' = FALSE
            /\ UNCHANGED <<lockFile, lockAge>>
    /\ UNCHANGED <<baseExists, dir, stateFile, sid, retry, timer, trues, sleeps,
                   own, setlog>>
    /\ UNCHANGED buf
acquire_open(c) ==
    /\ pc[c] = "acq_open"
    /\ LET s == sid[c] IN
       IF dir[s]
       THEN /\ lockFile' = [lockFile EXCEPT ![s] = "empty"]
            /\ lockAge' = [lockAge EXCEPT ![s] = 0]
            /\ pc' = [pc EXCEPT ![c] = "acq_write"]
            /\ calm' = Undisturbed(c, s)
            /\ ret' = ret
       ELSE \* no directory to create the file in: FileNotFoundError
            /\ pc' = [pc EXCEPT ![c] = "acq_finally"]
            /\ ret' = [ret EXCEPT ![c] = Raised("acquire_lock", "FileNotFoundError")]
            /\ calm' = FALSE
            /\ UNCHANGED <<lockFile, lockAge>>
    /\ UNCHANGED <<baseExists, dir, stateFile, sid, retry, timer, trues, sleeps,
                   own, setlog>>
    /\ UNCHANGED buf

\* writer.write(str(utc_now())), the writer is closed, then yield.
\* A file unlinked since it was opened stays absent: the text goes to the
\* unlinked file.
acquire_write(c) ==
    /\ pc[c] = "acq_write"
    /\ LET s == sid[c] IN
       /\ lockFile' = [lockFile EXCEPT ![s] = IF @ = "absent" THEN "absent" ELSE "written"]
       /\ lockAge' = [lockAge EXCEPT ![s] = 0]
       /\ calm' = Undisturbed(c, s)
    /\ pc' = [pc EXCEPT ![c] = "cs"]
    /\ own' = [own EXCEPT ![c] = 0]
    /\ UNCHANGED <<baseExists, dir, stateFile, sid, retry, timer, trues, sleeps,
                   ret, setlog>>
    /\ UNCHANGED buf

\* the protected section ends, normally (outcome "ok") or by a failure raised
\* in it; the finally clause removes the lock file and the failure goes on
acquire_exit_noFinally(c, outcome) ==
    /\ pc[c] = "cs"
    /\ IF outcome = "ok" THEN rm_lock(sid[c]) ELSE UNCHANGED <<lockFile, lockAge>>
    /\ pc' = [pc EXCEPT ![c] = "idle"]
    /\ own' = [own EXCEPT ![c] = 0]
    /\ ret' = [ret EXCEPT ![c] =
           IF outcome = "ok" THEN Returned("acquire_lock", None, 238)
           ELSE Raised("acquire_lock", outcome)]
    /\ calm' = Undisturbed(c, sid[c])
    /\ UNCHANGED <<baseExists, dir, stateFile, sid, retry, timer, trues, sleeps,
                   setlog>>
    /\ UNCHANGED buf
acquire_exit_rmdir(c, outcome) ==
    /\ pc[c] = "cs"
    /\ stateFile' = [stateFile EXCEPT ![sid[c]] = NoFile]
    /\ lockFile' = [lockFile EXCEPT ![sid[c]] = "absent"]
    /\ lockAge' = [lockAge EXCEPT ![sid[c]] = 0]
    /\ dir' = [dir EXCEPT ![sid[c]] = FALSE]
    /\ pc' = [pc EXCEPT ![c] = "idle"]
    /\ own' = [own EXCEPT ![c] = 0]
    /\ ret' = [ret EXCEPT ![c] =
           IF outcome = "ok" THEN Returned("acquire_lock", None, 238)
           ELSE Raised("acquire_lock", outcome)]
    /\ calm' = Undisturbed(c, sid[c])
    /\ UNCHANGED <<baseExists, sid, retry, timer, trues, sleeps, setlog, buf>>
acquire_exit(c, outcome) ==
    /\ pc[c] = "cs"
    /\ rm_lock(sid[c])
    /\ pc' = [pc EXCEPT ![c] = "idle"]
    /\ own' = [own EXCEPT ![c] = 0]
    /\ ret' = [ret EXCEPT ![c] =
           IF outcome = "ok" THEN Returned("acquire_lock", None, 238)
           ELSE Raised("acquire_lock", outcome)]
    /\ calm' = Undisturbed(c, sid[c])
    /\ UNCHANGED <<baseExists, dir, stateFile, sid, retry, timer, trues, sleeps,
                   setlog>>
    /\ UNCHANGED buf

\* the protected section ends and the backend refuses to delete the lock
\* file: rm_file raises OSError (PermissionError), which the finally clause
\* passes over
acquire_exit_refused_raising(c, outcome) ==
    /\ pc[c] = "cs"
    /\ pc' = [pc EXCEPT ![c] = "idle"]
    /\ own' = [own EXCEPT ![c] = 0]
    /\ ret' = [ret EXCEPT ![c] = Raised("acquire_lock", "PermissionError")]
    /\ calm' = FALSE
    /\ UNCHANGED <<fs, sid, retry, timer, trues, sleeps, setlog, buf>>
acquire_exit_refused(c, outcome) ==
    /\ pc[c] = "cs"
    /\ pc' = [pc EXCEPT ![c] = "idle"]
    /\ own' = [own EXCEPT ![c] = 0]
    /\ ret' = [ret EXCEPT ![c] =
           IF outcome = "ok" THEN Returned("acquire_lock", None, 238)
           ELSE Raised("acquire_lock", outcome)]
    /\ calm' = FALSE
    /\ UNCHANGED <<fs, sid, retry, timer, trues, sleeps, setlog, buf>>

\* the wait is given up from outside (an interrupt raised in sleep or between
\* polls): the finally clause runs although no lock was written
acquire_abort(c) ==
    /\ pc[c] = "acq_poll"
    /\ rm_lock(sid[c])
    /\ pc' = [pc EXCEPT ![c] = "idle"]
    /\ timer' = [timer EXCEPT ![c] = 0]
    /\ ret' = [ret EXCEPT ![c] = Raised("acquire_lock", "Interrupt")]
    /\ calm' = FALSE
    /\ UNCHANGED <<baseExists, dir, stateFile, sid, retry, trues, sleeps, own,
                   setlog>>
    /\ UNCHANGED buf

\* the finally clause after a failure of is_locked or of open("w")
acquire_finally(c) ==
    /\ pc[c] = "acq_finally"
    /\ rm_lock(sid[c])
    /\ pc' = [pc EXCEPT ![c] = "idle"]
    /\ calm' = FALSE
    /\ UNCHANGED <<baseExists, dir, stateFile, sid, retry, timer, trues, sleeps,
                   own, ret, setlog>>
    /\ UNCHANGED buf

\* is_locked(state_id) called directly
is_locked(c, s) ==
    /\ pc[c] = "idle"
    /\ sid' = [sid EXCEPT ![c] = s]
    /\ CASE lockFile[s] = "absent" ->
              /\ ret' = [ret EXCEPT ![c] = Returned("is_locked", FALSE, 160)]
              /\ pc' = pc
         [] lockFile[s] = "empty" ->
              /\ ret' = [ret EXCEPT ![c] = Raised("is_locked", "ValueError")]
              /\ pc' = pc
         [] lockFile[s] = "written" /\ LockExpired(lockAge[s], lock_timeout_seconds) ->
              /\ ret' = [ret EXCEPT ![c] = NoCall]
              /\ pc' = [pc EXCEPT ![c] = "il_reclaim"]
         [] OTHER ->
              /\ ret' = [ret EXCEPT ![c] = Returned("is_locked", TRUE, 158)]
              /\ pc' = pc
    /\ calm' = Undisturbed(c, s)
    /\ UNCHANGED <<fs, retry, timer, trues, sleeps, own, setlog>>
    /\ UNCHANGED buf

\* one second passes: lock files and held locks age, sleepers get closer to
\* waking.  A holder still in its section when its own lock turns stale has
\* left the low-contention regime.
Tick ==
    /\ lockAge' = [s \in StateIds |->
           IF lockFile[s] = "written" THEN Min(lockAge[s] + 1, MaxAge) ELSE 0]
    /\ own' = [c \in Callers |->
           IF pc[c] = "cs" THEN Min(own[c] + 1, MaxAge) ELSE 0]
    /\ timer' = [c \in Callers |-> IF timer[c] > 0 THEN timer[c] - 1 ELSE 0]
    /\ calm' = (calm /\ \A c \in Callers :
                   pc[c] = "cs" => own[c] + 1 <= lock_timeout_seconds)
    /\ UNCHANGED <<baseExists, dir, lockFile, stateFile, pc, sid, retry, trues,
                   sleeps, ret, setlog>>
    /\ UNCHANGED buf

\* ---------------------------------------------------------------- state CRUD
\* set(state): self.mkdir(state.state_id), then state.json() is written to
\* state.json, replacing what was there
set_merge(c, state) ==
    /\ pc[c] = "idle"
    /\ baseExists' = TRUE
    /\ dir' = [dir EXCEPT ![state.state_id] = TRUE]
    /\ stateFile' = [stateFile EXCEPT ![state.state_id] =
           IF @ = NoFile THEN File(json(state))
           ELSE File(dumps(from_file(state.state_id, @.text).completed_state)
                     \o dumps(state.partial_state))]
    /\ sid' = [sid EXCEPT ![c] = state.state_id]
    /\ ret' = [ret EXCEPT ![c] = Returned("set", None, 175)]
    /\ setlog' = [setlog EXCEPT ![state.state_id] = Logged(@, state)]
    /\ UNCHANGED <<lockFile, lockAge, pc, retry, timer, trues, sleeps, own, calm>>
    /\ UNCHANGED buf
set_locked(c, state) ==
    /\ pc[c] = "idle"
    /\ baseExists' = TRUE
    /\ dir' = [dir EXCEPT ![state.state_id] = TRUE]
    /\ sid' = [sid EXCEPT ![c] = state.state_id]
    /\ IF lockFile[state.state_id] = "absent"
       THEN /\ stateFile' = [stateFile EXCEPT ![state.state_id] = File(json(state))]
            /\ ret' = [ret EXCEPT ![c] = Returned("set", None, 175)]
            /\ setlog' = [setlog EXCEPT ![state.state_id] = Logged(@, state)]
       ELSE /\ ret' = [ret EXCEPT ![c] = Raised("set", "Locked")]
            /\ UNCHANGED <<stateFile, setlog>>
    /\ UNCHANGED <<lockFile, lockAge, pc, retry, timer, trues, sleeps, own, calm>>
    /\ UNCHANGED buf
set(c, state) ==
    /\ pc[c] = "idle"
    /\ baseExists' = TRUE
    /\ dir' = [dir EXCEPT ![state.state_id] = TRUE]
    /\ stateFile' = [stateFile EXCEPT ![state.state_id] = File(json(state))]
    /\ sid' = [sid EXCEPT ![c] = state.state_id]
    /\ ret' = [ret EXCEPT ![c] = Returned("set", None, 175)]
    /\ setlog' = [setlog EXCEPT ![state.state_id] = Logged(@, state)]
    /\ UNCHANGED <<lockFile, lockAge, pc, retry, timer, trues, sleeps, own, calm>>
    /\ UNCHANGED buf

\* set(state) step by step, for callers that run it at the same time:
\* self.mkdir, and open("w") creates the file or empties it
set_open(c, state) ==
    /\ pc[c] = "idle"
    /\ baseExists' = TRUE
    /\ dir' = [dir EXCEPT ![state.state_id] = TRUE]
    /\ stateFile' = [stateFile EXCEPT ![state.state_id] = File(<<>>)]
    /\ pc' = [pc EXCEPT ![c] = "set_write"]
    /\ sid' = [sid EXCEPT ![c] = state.state_id]
    /\ buf' = [buf EXCEPT ![c] = json(state)]
    /\ ret' = [ret EXCEPT ![c] = NoCall]
    /\ UNCHANGED <<lockFile, lockAge, retry, timer, trues, sleeps, own, calm, setlog>>

\* writer.write(state.json()) and the writer is closed: the text lands
set_write_atomic(c) ==
    /\ pc[c] = "set_write"
    /\ stateFile' = [stateFile EXCEPT ![sid[c]] =
           IF @ = NoFile THEN NoFile ELSE File(buf[c])]
    /\ setlog' = [setlog EXCEPT ![sid[c]] = Logged(@, from_file(sid[c], buf[c]))]
    /\ pc' = [pc EXCEPT ![c] = "idle"]
    /\ buf' = [buf EXCEPT ![c] = <<>>]
    /\ ret' = [ret EXCEPT ![c] = Returned("set", None, 175)]
    /\ UNCHANGED <<baseExists, dir, lockFile, lockAge, sid, retry, timer, trues,
                   sleeps, own, calm>>
set_write(c) ==
    /\ pc[c] = "set_write"
    /\ stateFile' = [stateFile EXCEPT ![sid[c]] =
           IF @ = NoFile THEN NoFile ELSE File(Overwrite(@.text, buf[c]))]
    /\ setlog' = [setlog EXCEPT ![sid[c]] = Logged(@, from_file(sid[c], buf[c]))]
    /\ pc' = [pc EXCEPT ![c] = "idle"]
    /\ buf' = [buf EXCEPT ![c] = <<>>]
    /\ ret' = [ret EXCEPT ![c] = Returned("set", None, 175)]
    /\ UNCHANGED <<baseExists, dir, lockFile, lockAge, sid, retry, timer, trues,
                   sleeps, own, calm>>

\* get(state_id): the document read back, None on FileNotFoundError; a read
\* that fails otherwise (failure # "none") is not caught, nor is the failure
\* of from_file on a text that is no document
get_catchAll(c, s, failure) ==
    /\ pc[c] = "idle"
    /\ sid' = [sid EXCEPT ![c] = s]
    /\ ret' = [ret EXCEPT ![c] =
           IF failure # "none" \/ stateFile[s] = NoFile
           THEN Returned("get", None, 186)
           ELSE IF ~Decodable(stateFile[s].text)
           THEN Returned("get", None, 186)
           ELSE Returned("get", from_file(s, stateFile[s].text), 183)]
    /\ UNCHANGED <<fs, pc, retry, timer, trues, sleeps, own, calm, setlog>>
    /\ UNCHANGED buf
get(c, s, failure) ==
    /\ pc[c] = "idle"
    /\ sid' = [sid EXCEPT ![c] = s]
    /\ ret' = [ret EXCEPT ![c] =
           IF failure # "none" THEN Raised("get", failure)
           ELSE IF stateFile[s] = NoFile THEN Returned("get", None, 186)
           ELSE IF ~Decodable(stateFile[s].text)
           THEN Raised("get", "JSONDecodeError")
           ELSE Returned("get", from_file(s, stateFile[s].text), 183)]
    /\ UNCHANGED <<fs, pc, retry, timer, trues, sleeps, own, calm, setlog>>
    /\ UNCHANGED buf

\* the storage after delete(state_id) for every s in ids: nothing happens to
\* a state_id without a directory; otherwise each file in the directory is
\* removed with rm_file and the directory with rmdir
delete_all_stateOnly(ids) ==
    /\ stateFile' = [s \in StateIds |->
           IF s \in ids /\ dir[s] THEN NoFile ELSE stateFile[s]]
    /\ UNCHANGED <<lockFile, lockAge, dir>>
    /\ setlog' = [s \in StateIds |-> IF s \in ids THEN <<>> ELSE setlog[s]]
delete_all(ids) ==
    /\ stateFile' = [s \in StateIds |->
           IF s \in ids /\ dir[s] THEN NoFile ELSE stateFile[s]]
    /\ lockFile' = [s \in StateIds |->
           IF s \in ids /\ dir[s] THEN "absent" ELSE lockFile[s]]
    /\ lockAge' = [s \in StateIds |->
           IF s \in ids /\ dir[s] THEN 0 ELSE lockAge[s]]
    /\ dir' = [s \in StateIds |-> IF s \in ids THEN FALSE ELSE dir[s]]
    /\ setlog' = [s \in StateIds |-> IF s \in ids THEN <<>> ELSE setlog[s]]

\* delete(state_id): returns at once if the directory does not exist
delete_unchecked(c, s) ==
    /\ pc[c] = "idle"
    /\ delete_all({s})
    /\ sid' = [sid EXCEPT ![c] = s]
    /\ ret' = [ret EXCEPT ![c] =
           IF dir[s] THEN Returned("delete", None, 202)
           ELSE Raised("delete", "FileNotFoundError")]
    /\ UNCHANGED <<baseExists, pc, retry, timer, trues, sleeps, own, calm>>
    /\ UNCHANGED buf
delete_wide(c, s) ==
    /\ pc[c] = "idle"
    /\ delete_all(IF dir[s] THEN StateIds ELSE {})
    /\ sid' = [sid EXCEPT ![c] = s]
    /\ ret' = [ret EXCEPT ![c] =
           Returned("delete", None, IF dir[s] THEN 202 ELSE 193)]
    /\ UNCHANGED <<baseExists, pc, retry, timer, trues, sleeps, own, calm>>
    /\ UNCHANGED buf
delete(c, s) ==
    /\ pc[c] = "idle"
    /\ delete_all({s})
    /\ sid' = [sid EXCEPT ![c] = s]
    /\ ret' = [ret EXCEPT ![c] =
           Returned("delete", None, IF dir[s] THEN 202 ELSE 193)]
    /\ UNCHANGED <<baseExists, pc, retry, timer, trues, sleeps, own, calm>>
    /\ UNCHANGED buf

\* clear_all(): delete for each of get_state_ids(), counted
clear_all_countDirs(c) ==
    /\ pc[c] = "idle"
    /\ delete_all(get_state_ids)
    /\ ret' = [ret EXCEPT ![c] =
           Returned("clear_all", Cardinality(iterdir), 219)]
    /\ UNCHANGED <<baseExists, pc, sid, retry, timer, trues, sleeps, own, calm>>
    /\ UNCHANGED buf
clear_all_allDirs(c) ==
    /\ pc[c] = "idle"
    /\ delete_all(iterdir)
    /\ ret' = [ret EXCEPT ![c] =
           Returned("clear_all", Cardinality(iterdir), 219)]
    /\ UNCHANGED <<baseExists, pc, sid, retry, timer, trues, sleeps, own, calm>>
    /\ UNCHANGED buf
clear_all(c) ==
    /\ pc[c] = "idle"
    /\ delete_all(get_state_ids)
    /\ ret' = [ret EXCEPT ![c] =
           Returned("clear_all", Cardinality(get_state_ids), 219)]
    /\ UNCHANGED <<baseExists, pc, sid, retry, timer, trues, sleeps, own, calm>>
    /\ UNCHANGED buf

\* get_state_ids(pattern) called by c; pattern None is the call without one
call_get_state_ids(c, pattern) ==
    /\ pc[c] = "idle"
    /\ ret' = [ret EXCEPT ![c] =
           Returned("get_state_ids", get_state_ids_pattern(pattern),
                    IF baseExists THEN 210 ELSE 208)]
    /\ UNCHANGED <<fs, pc, sid, retry, timer, trues, sleeps, own, calm, setlog>>
    /\ UNCHANGED buf

\* ------------------------------------------------------------- construction
\* strings of the constructor's arguments, character by character
file == <<"f", "i", "l", "e">>
s3 == <<"s", "3">>
azure == <<"a", "z", "u", "r", "e">>
abfs == <<"a", "b", "f", "s">>
sftp == <<"s", "f", "t", "p">>
Protocols == {file, s3, azure, abfs, sftp}

\* PROTOCOL_MAPPING.get(protocol, protocol)
PROTOCOL_MAPPING == azure :> abfs
PROTOCOL_MAPPING_get(protocol) ==
    IF protocol \in DOMAIN PROTOCOL_MAPPING THEN PROTOCOL_MAPPING[protocol]
    ELSE protocol

\* s.replace(old, new): every occurrence of old, leftmost first, none
\* overlapping
replace_nothing(s, old, new) == s
RECURSIVE replace(_, _, _)
replace(s, old, new) ==
    IF Len(s) < Len(old) THEN s
    ELSE IF SubSeq(s, 1, Len(old)) = old
         THEN new \o replace(SubSeq(s, Len(old) + 1, Len(s)), old, new)
         ELSE <<Head(s)>> \o replace(Tail(s), old, new)

\* key.split("."): the parts of key between the dots
RECURSIVE split(_)
split(s) ==
    IF \A i \in 1..Len(s) : s[i] # "."
    THEN <<s>>
    ELSE LET i == CHOOSE j \in 1..Len(s) :
                     s[j] = "." /\ \A h \in 1..(j - 1) : s[h] # "."
         IN  <<SubSeq(s, 1, i - 1)>> \o split(SubSeq(s, i + 1, Len(s)))

\* the uri arguments: the placeholder scheme fs, the scheme fsspec of
\* tests/test_manager.py, and a uri that already names its backend
scheme_fs == <<"f", "s", ":", "/", "/">>
scheme_fsspec == <<"f", "s", "s", "p", "e", "c", ":", "/", "/">>
tmp_test == <<"/", "t", "m", "p", "/", "t", "e", "s", "t">>
my_bucket == <<"m", "y", "-", "b", "u", "c", "k", "e", "t", "/", "p", "a", "t", "h", "/", "t", "o", "/", "s", "t", "a", "t", "e">>
Rests == {tmp_test, my_bucket}
Uris ==
    {scheme_fs \o r : r \in Rests} \cup {scheme_fsspec \o r : r \in Rests}
    \cup {abfs \o <<":", "/", "/">> \o my_bucket}

\* private key texts and what paramiko makes of them: the class whose
\* from_private_key accepts the text, and the password it is encrypted with
Ed25519Key == "Ed25519Key"
RSAKey == "RSAKey"
ECDSAKey == "ECDSAKey"
KeyFile ==
    Str(<<"E">>) :> [class |-> Ed25519Key, password |-> None] @@
    Str(<<"R">>) :> [class |-> RSAKey, password |-> None] @@
    Str(<<"C">>) :> [class |-> ECDSAKey, password |-> None] @@
    Str(<<"C", "#">>) :> [class |-> ECDSAKey, password |-> Str(<<"p", "w">>)]
invalid_key == Str(<<"i", "n", "v", "a", "l", "i", "d", " ", "k", "e", "y">>)
PkeyValues == DOMAIN KeyFile \cup {invalid_key, Str(<<>>)}

\* key_class.from_private_key(io.StringIO(pkey), password=passphrase): the
\* key, or SSHException
SSHException == [exception |-> "SSHException"]
from_private_key(key_class, pkey, password) ==
    IF /\ pkey \in DOMAIN KeyFile
       /\ KeyFile[pkey].class = key_class
       /\ KeyFile[pkey].password \in {None, password}
    THEN [key_class |-> key_class, pkey |-> pkey]
    ELSE SSHException

\* _guess_key_class(pkey, passphrase): the first class of key_classes that
\* loads the key; tried records the classes asked, in order
key_classes_rsaOnly == <<RSAKey>>
key_classes == <<Ed25519Key, RSAKey, ECDSAKey>>
RECURSIVE guess_from(_, _, _)
guess_from(i, pkey, passphrase) ==
    IF i > Len(key_classes)
    THEN [raised |-> "SFTP private key is not in a valid format",
          tried |-> key_classes]
    ELSE IF from_private_key(key_classes[i], pkey, passphrase) # SSHException
         THEN [key |-> from_private_key(key_classes[i], pkey, passphrase),
               tried |-> SubSeq(key_classes, 1, i)]
         ELSE guess_from(i + 1, pkey, passphrase)
guess_key_class(pkey, passphrase) == guess_from(1, pkey, passphrase)

\* option names, keys "<prefix>.<name>" and values
opt_pkey == <<"p", "k", "e", "y">>
opt_passphrase == <<"p", "a", "s", "s", "p", "h", "r", "a", "s", "e">>
opt_key == <<"k", "e", "y">>
opt_account_name == <<"a", "c", "c", "o", "u", "n", "t", "_", "n", "a", "m", "e">>
opt_endpoint_url == <<"e", "n", "d", "p", "o", "i", "n", "t", "_", "u", "r", "l">>
opt_client_kwargs == <<"c", "l", "i", "e", "n", "t", "_", "k", "w", "a", "r", "g", "s">>
dotted(prefix, option) == prefix \o <<".">> \o option
Values == {Str(<<"v">>), Str(<<"w">>)}

\* the entries a storage_options mapping is made of
Items ==
    {<<dotted(s3, opt_key), v>> : v \in Values}
    \cup {<<dotted(azure, opt_account_name), Str(<<"v">>)>>,
          <<dotted(abfs, opt_account_name), Str(<<"w">>)>>,
          <<dotted(sftp, opt_passphrase), Str(<<"p", "w">>)>>,
          <<opt_endpoint_url, Str(<<"v">>)>>,
          <<dotted(s3, dotted(opt_client_kwargs, opt_endpoint_url)), Str(<<"v">>)>>}
    \cup {<<dotted(sftp, opt_pkey), k>> : k \in PkeyValues}

\* storage_options arguments: dicts of up to MaxOptions entries, in
\* insertion order, no key twice
MaxOptions == 2
StorageOptions == UNION {[1..n -> Items] : n \in 0..MaxOptions}
OneKeyOnce(items) ==
    \A i, j \in 1..Len(items) : items[i][1] = items[j][1] => i = j

\* opts.get(name)
opts_get(opts, option) == IF option \in DOMAIN opts THEN opts[option] ELSE None

\* the loop over storage_options.items(): a key that does not split in two
\* raises ValueError from the unpacking; an entry of another protocol is
\* skipped; opts[setting_name] = value
Unpackable(items) == \A i \in 1..Len(items) : Len(split(items[i][1])) = 2
RECURSIVE collect(_, _, _)
collect(items, protocol, opts) ==
    IF items = <<>> THEN opts
    ELSE LET parts == split(Head(items)[1])
             protocol_name == PROTOCOL_MAPPING_get(parts[1])
         IN  IF protocol_name # protocol
             THEN collect(Tail(items), protocol, opts)
             ELSE collect(Tail(items), protocol,
                          [n \in DOMAIN opts \cup {parts[2]} |->
                              IF n = parts[2] THEN Head(items)[2] ELSE opts[n]])

\* _preprocess_storage_options(protocol, options)
NeedsKey(protocol, options) ==
    protocol = sftp /\ Truthy(opts_get(options, opt_pkey))
preprocess_storage_options(protocol, options) ==
    IF NeedsKey(protocol, options)
    THEN [options EXCEPT ![opt_pkey] =
             guess_key_class(options[opt_pkey], opts_get(options, opt_passphrase)).key]
    ELSE options

\* FSSpecStateStoreManager.__init__(uri, protocol, storage_options): the
\* manager, or the error the constructor raises
__init__(uri, protocol, storage_options) ==
    LET resolved == PROTOCOL_MAPPING_get(protocol)
        fsuri == replace(uri, scheme_fs, resolved \o <<":", "/", "/">>)
    IN  IF ~Unpackable(storage_options)
        THEN Raised("__init__", "ValueError: unpack")
        ELSE LET opts == collect(storage_options, resolved, <<>>)
                 guess == IF NeedsKey(resolved, opts)
                          THEN guess_key_class(opts[opt_pkey],
                                               opts_get(opts, opt_passphrase))
                          ELSE [tried |-> <<>>]
             IN  IF "raised" \in DOMAIN guess
                 THEN Raised("__init__", guess.raised)
                 ELSE Returned("__init__",
                          [fsuri |-> fsuri,
                           lock_timeout_seconds |-> lock_timeout_seconds,
                           lock_retry_seconds |-> lock_retry_seconds,
                           storage_options |->
                               preprocess_storage_options(resolved, opts),
                           tried |-> guess.tried],
                          103)

\* FSSpecStateStoreManager(uri, protocol, storage_options=...) called by c;
\* the outcome is recorded together with the arguments
FSSpecStateStoreManager(c, uri, protocol, storage_options) ==
    /\ pc[c] = "idle"
    /\ LET o == __init__(uri, protocol, storage_options)
       IN  ret' = [ret EXCEPT ![c] =
                      [op |-> o.op, kind |-> o.kind, val |-> o.val, at |-> o.at,
                       args |-> [uri |-> uri, protocol |-> protocol,
                                 storage_options |-> storage_options]]]
    /\ UNCHANGED <<fs, pc, sid, retry, timer, trues, sleeps, own, calm, setlog, buf>>

\* ------------------------------------------------------------ specification
Next ==
    \/ \E c \in Callers, s \in StateIds, r \in RetryChoices : acquire_lock(c, s, r)
    \/ \E c \in Callers : acquire_poll(c)
    \/ \E c \in Callers : reclaim(c)
    \/ \E c \in Callers : acquire_open(c)
    \/ \E c \in Callers : acquire_write(c)
    \/ \E c \in Callers, outcome \in {"ok"} \cup SectionFailures : acquire_exit(c, outcome)
    \/ \E c \in Callers : acquire_abort(c)
    \/ \E c \in Callers : acquire_finally(c)
    \/ \E c \in Callers, s \in StateIds : is_locked(c, s)
    \/ Tick

Spec == Init /\ [][Next]_vars

\* the lock protocol with callers that may leave retry_seconds out and a
\* backend that may refuse to delete a lock file
NextFull ==
    \/ \E c \in Callers, s \in StateIds : acquire_lock(c, s, lock_retry_seconds)
    \/ \E c \in Callers, s \in StateIds : acquire_lock_default(c, s)
    \/ \E c \in Callers : acquire_poll(c)
    \/ \E c \in Callers : reclaim(c)
    \/ \E c \in Callers : acquire_open(c)
    \/ \E c \in Callers : acquire_write(c)
    \/ \E c \in Callers, outcome \in {"ok", "RuntimeError"} :
          acquire_exit(c, outcome)
    \/ \E c \in Callers, outcome \in {"ok", "RuntimeError"} :
          acquire_exit_refused(c, outcome)
    \/ \E c \in Callers : acquire_finally(c)
    \/ \E c \in Callers, s \in StateIds : is_locked(c, s)
    \/ Tick

SpecFull == Init /\ [][NextFull]_vars

\* acquisitions whose holders never release: the steps of acquire_lock without
\* the end of the protected section.  The clock keeps advancing and every
\* caller inside acquire_lock keeps being scheduled.
acquire_step(c) ==
    \/ acquire_poll(c)
    \/ reclaim(c)
    \/ acquire_open(c)
    \/ acquire_write(c)
    \/ acquire_finally(c)

NextLive ==
    \/ \E c \in Callers, s \in StateIds, r \in RetryChoices : acquire_lock(c, s, r)
    \/ \E c \in Callers : acquire_step(c)
    \/ Tick

SpecLive ==
    /\ Init
    /\ [][NextLive]_vars
    /\ WF_vars(Tick)
    /\ \A c \in Callers : WF_vars(acquire_step(c))

\* the state store in sequential use: one client calls set, get, delete and
\* clear_all, each call running to its end before the next one starts, while
\* the other callers may take and release the lock with the configured retry
\* interval, so that directories with a lock file and no state.json occur
StoreClients == {"c1"}
NextStore ==
    \/ \E c \in StoreClients, state \in MeltanoStates : set(c, state)
    \/ \E c \in StoreClients, s \in StateIds, failure \in {"none"} \cup ReadFailures :
          get(c, s, failure)
    \/ \E c \in StoreClients, s \in StateIds : delete(c, s)
    \/ \E c \in StoreClients : clear_all(c)
    \/ \E c \in StoreClients, pattern \in {None} \cup Patterns :
          call_get_state_ids(c, pattern)
    \/ \E c \in Callers \ StoreClients, s \in StateIds :
          acquire_lock(c, s, lock_retry_seconds)
    \/ \E c \in Callers : acquire_poll(c)
    \/ \E c \in Callers : acquire_open(c)
    \/ \E c \in Callers : acquire_write(c)
    \/ \E c \in Callers : acquire_exit(c, "ok")
    \/ \E c \in Callers : acquire_finally(c)

SpecStore == Init /\ [][NextStore]_vars

\* the state store and the lock protocol side by side: one client calls set,
\* get, delete, clear_all and get_state_ids, every caller may ask is_locked
\* and take and release the lock with the configured retry interval, and
\* time passes
SharedStates ==
    {state \in MeltanoStates :
        state.partial_state = "p1" /\ state.completed_state = "k1"}
NextShared ==
    \/ \E c \in StoreClients, state \in SharedStates : set(c, state)
    \/ \E c \in StoreClients, s \in StateIds : get(c, s, "none")
    \/ \E c \in StoreClients, s \in StateIds : delete(c, s)
    \/ \E c \in StoreClients : clear_all(c)
    \/ \E c \in StoreClients : call_get_state_ids(c, None)
    \/ \E c \in Callers, s \in StateIds : is_locked(c, s)
    \/ \E c \in Callers : reclaim(c)
    \/ \E c \in Callers, s \in StateIds : acquire_lock(c, s, lock_retry_seconds)
    \/ \E c \in Callers : acquire_poll(c)
    \/ \E c \in Callers : acquire_open(c)
    \/ \E c \in Callers : acquire_write(c)
    \/ \E c \in Callers : acquire_exit(c, "ok")
    \/ \E c \in Callers : acquire_finally(c)
    \/ Tick

SpecShared == Init /\ [][NextShared]_vars

\* callers that run set at the same time, each set in its two steps, and get
NextRace ==
    \/ \E c \in Callers, state \in MeltanoStates : set_open(c, state)
    \/ \E c \in Callers : set_write(c)
    \/ \E c \in Callers, s \in StateIds : get(c, s, "none")

SpecRace == Init /\ [][NextRace]_vars

\* a manager constructed from any combination of arguments
NextNew ==
    \E c \in StoreClients, uri \in Uris, protocol \in Protocols,
       storage_options \in StorageOptions :
          /\ ret[c] = NoCall
          /\ OneKeyOnce(storage_options)
          /\ FSSpecStateStoreManager(c, uri, protocol, storage_options)

SpecNew == Init /\ [][NextNew]_vars

\* ------------------------------------------------------------------ claims
\* what the claims call Locked and Unlocked, read off the storage
Fresh(s) == lockFile[s] = "written" /\ lockAge[s] <= lock_timeout_seconds
Stale(s) == lockFile[s] = "written" /\ lockAge[s] > lock_timeout_seconds
InSection(c, s) == pc[c] = "cs" /\ sid[c] = s

\* C1: mutual exclusion in the low-contention regime.  As long as no caller
\* stepped between another caller's last is_locked poll and its lock write,
\* no acquisition was aborted while waiting and no holder was still in its
\* section when lock_timeout_seconds had passed since it wrote the lock
\* (calm), no two callers are in the protected section of one state_id.
C1_MutualExclusion ==
    calm => \A s \in StateIds : \A c, d \in Callers :
                (InSection(c, s) /\ InSection(d, s)) => c = d

\* C1 happens: in the regime, one caller holds the lock and another one has
\* been turned away by a poll and waits.
C1_Witness ==
    calm /\ \E s \in StateIds : \E c, d \in Callers :
        /\ InSection(c, s)
        /\ pc[d] = "acq_poll" /\ sid[d] = s /\ trues[d] > 0

\* C2: the acquire race.  A caller whose poll returned False opens and writes
\* the lock file whatever the file holds by then (no create-if-absent), and
\* enters its section; so two callers can be in the section together.
C2_WriteIsUnconditional ==
    [][\A c \in Callers :
          /\ (pc[c] = "acq_open" /\ pc'[c] # "acq_open" /\ dir[sid[c]])
                => (pc'[c] = "acq_write" /\ lockFile'[sid[c]] = "empty")
          /\ (pc[c] = "acq_write" /\ pc'[c] # "acq_write")
                => (pc'[c] = "cs" /\ own'[c] = 0
                    /\ (lockFile[sid[c]] # "absent" =>
                          (lockFile'[sid[c]] = "written" /\ lockAge'[sid[c]] = 0)))
      ]_vars

\* C2 happens: two callers, each of which saw is_locked False on its only
\* poll and wrote the lock, are in the section of the same state_id, and no
\* lock is expired.
C2_Witness ==
    \E s \in StateIds : \E c, d \in Callers :
        /\ c # d
        /\ InSection(c, s) /\ InSection(d, s)
        /\ trues[c] = 0 /\ trues[d] = 0
        /\ own[c] <= lock_timeout_seconds /\ own[d] <= lock_timeout_seconds
        /\ Fresh(s)

\* C3: is_locked returns True exactly when the lock file exists and
\* utc_now() <= timestamp + lock_timeout_seconds, and False when the file is
\* absent or older; with a timeout of 60 a lock is locked at ages 0..60 and
\* unlocked from age 61 on.
C3_IsLockedExact ==
    /\ [][\A c \in Callers : \A s \in StateIds :
             is_locked(c, s) =>
                /\ Fresh(s) => ret'[c] = Returned("is_locked", TRUE, 158)
                /\ lockFile[s] = "absent" => ret'[c] = Returned("is_locked", FALSE, 160)
                /\ Stale(s) => (pc'[c] = "il_reclaim" /\ ret'[c].kind # "return")
                /\ (ret'[c].kind = "return" /\ ret'[c].val = TRUE) => Fresh(s)
         ]_vars
    /\ [][\A c \in Callers :
             (reclaim(c) /\ pc[c] = "il_reclaim")
                => ret'[c] = Returned("is_locked", FALSE, 157)
         ]_vars
    /\ [](\A age \in 0..62 : LockExpired(age, 60) <=> age >= 61)

\* C3 happens: is_locked has just returned True for a lock that is exactly
\* lock_timeout_seconds old.
C3_Witness ==
    \E c \in Callers :
        /\ pc[c] = "idle"
        /\ ret[c] = Returned("is_locked", TRUE, 158)
        /\ lockFile[sid[c]] = "written"
        /\ lockAge[sid[c]] = lock_timeout_seconds

C6_WaiterEventuallyEnters ==
    \A c \in Callers : (pc[c] = "acq_poll") ~> (pc[c] = "cs")

\* C7: stale reclamation never steals a live lock: the stale branch of
\* is_locked removes the lock file only if the lock it removes is stale; a
\* fresh lock written since the poll read the stale one is still there.
C7_ReclaimSparesFreshLock ==
    [][\A c \in Callers :
          (reclaim(c) /\ Fresh(sid[c])) =>
             (lockFile'[sid[c]] = "written" /\ lockAge'[sid[c]] = lockAge[sid[c]])
      ]_vars

\* C8: the retry loop.  When the poll that ends the loop returns False after
\* N polls that returned True, sleep has been called exactly N times, each
\* time with the retry_seconds of the call; with N = 0 it was not called.
\* (Counts are recorded up to MaxPolls.)
C8_RetryLoop ==
    \A c \in Callers :
        pc[c] \in {"acq_poll", "acq_reclaim", "acq_open", "acq_write", "cs"} =>
            /\ trues[c] < MaxPolls => Len(sleeps[c]) = trues[c]
            /\ \A i \in 1..Len(sleeps[c]) : sleeps[c][i] = retry[c]
            /\ (trues[c] = 0 /\ pc[c] = "acq_poll") => timer[c] = 0

\* C8 happens: a caller is in its section after two polls returned True, with
\* retry_seconds = 2.
C8_Witness ==
    \E c \in Callers :
        /\ pc[c] = "cs"
        /\ retry[c] = 2
        /\ trues[c] = 2
        /\ sleeps[c] = <<2, 2>>

\* C9: round trip and full overwrite.  Whenever a state was set for a
\* state_id and no delete of it and no clear_all came after, a get of that
\* state_id that returns returns exactly that state (the last one set, with
\* nothing of an earlier one), and it does return unless the backend read
\* fails.
C9_GetReturnsLastSet ==
    [][\A c \in Callers : \A s \in StateIds :
          \A failure \in {"none"} \cup ReadFailures :
             (get(c, s, failure) /\ setlog[s] # <<>>) =>
                /\ ret'[c].kind = "return" =>
                      ret'[c] = Returned("get", setlog[s][Len(setlog[s])], 183)
                /\ failure = "none" => ret'[c].kind = "return"
      ]_vars

\* C9 happens: after two sets for one state_id that differ in both mappings,
\* a get has returned the state of the second one.
C9_Witness ==
    \E c \in Callers :
        /\ ret[c].op = "get" /\ ret[c].kind = "return" /\ ret[c].at = 183
        /\ sid[c] = "job1"
        /\ Len(setlog["job1"]) = 2
        /\ setlog["job1"][1] = [state_id |-> "job1", partial_state |-> "p1",
                               completed_state |-> "k1"]
        /\ setlog["job1"][2] = [state_id |-> "job1", partial_state |-> "p2",
                               completed_state |-> "k2"]
        /\ ret[c].val = setlog["job1"][2]

\* C10: not-found semantics.  get returns None and raises nothing whenever
\* state.json does not exist, be the directory missing or there with only a
\* lock file in it; it returns None in no other case, and a read that fails
\* otherwise reaches the caller as that failure.
C10_GetNotFound ==
    [][\A c \in Callers : \A s \in StateIds :
          \A failure \in {"none"} \cup ReadFailures :
             get(c, s, failure) =>
                /\ (failure = "none" /\ stateFile[s] = NoFile)
                      => ret'[c] = Returned("get", None, 186)
                /\ (ret'[c].kind = "return" /\ ret'[c].at = 186)
                      => (failure = "none" /\ stateFile[s] = NoFile)
                /\ failure # "none" => ret'[c] = Raised("get", failure)
      ]_vars

\* C10 happens: get has returned None for a state_id whose directory holds a
\* lock file and no state.json.
C10_Witness ==
    \E c \in Callers :
        /\ pc[c] = "idle"
        /\ ret[c] = Returned("get", None, 186)
        /\ dir[sid[c]] /\ lockFile[sid[c]] = "written"
        /\ stateFile[sid[c]] = NoFile

\* the state_ids whose last set was not followed by delete or clear_all
Committed == {s \in StateIds : setlog[s] # <<>>}

test_job(a, b) == <<"t", "e", "s", "t", "_", "j", "o", "b", a, b>>
test_job_star(a) == <<"t", "e", "s", "t", "_", "j", "o", "b", a, "*">>
test_jobs == {test_job("1", "1"), test_job("1", "2"), test_job("2", "1")}
test_job1_star == {n \in test_jobs : Match(test_job_star("1"), n)}
test_job2_star == {n \in test_jobs : Match(test_job_star("2"), n)}

\* what each pattern of Patterns, the empty one aside, matches among the
\* names job1 and job2
MatchedBy ==
    Str(<<"*">>) :> {"job1", "job2"} @@
    Str(<<"j", "o", "b", "1">>) :> {"job1"} @@
    Str(<<"j", "o", "b", "*">>) :> {"job1", "job2"} @@
    Str(<<"*", "2">>) :> {"job2"} @@
    Str(<<"j", "o", "b", "?">>) :> {"job1", "job2"} @@
    Str(<<"j", "o", "b">>) :> {} @@
    Str(<<"x", "*">>) :> {}

C16_SetIgnoresLock ==
    [][\A c \in Callers : \A state \in MeltanoStates :
          set(c, state) =>
             /\ ret'[c] = Returned("set", None, 175)
             /\ stateFile'[state.state_id] = File(json(state))
             /\ UNCHANGED <<lockFile, lockAge>>
      ]_vars

\* C16 happens: set has returned and its document is stored while another
\* caller is in its protected section for the same state_id, its lock
\* unexpired and still in place.
C16_Witness ==
    \E c, d \in Callers :
        /\ c # d
        /\ ret[c] = Returned("set", None, 175)
        /\ pc[d] = "cs" /\ sid[d] = sid[c]
        /\ Fresh(sid[c])
        /\ stateFile[sid[c]] # NoFile

\* no caller has a set for state_id s under way
SetsReturned(s) == \A d \in Callers : ~(pc[d] = "set_write" /\ sid[d] = s)

\* C17: last-write-wins.  Once every set for a state_id has returned, a get
\* of it returns the state of the set whose write landed last: one of the
\* states written, never absent and never a mixture.
C17_LastWriteWins ==
    [][\A c \in Callers : \A s \in StateIds :
          (get(c, s, "none") /\ SetsReturned(s) /\ setlog[s] # <<>>) =>
             ret'[c] = Returned("get", setlog[s][Len(setlog[s])], 183)
      ]_vars

\* the constructions that have taken place
Built(c) == ret[c].op = "__init__"
Pairs(f) == {<<n, f[n]>> : n \in DOMAIN f}

\* the entries of a storage_options argument whose key prefix (what stands
\* before the first dot) resolves to the resolved protocol, each under its
\* option name (what stands after that dot) with its value
HasPrefix(key) == \E i \in 1..Len(key) : key[i] = "."
OptionName(key) == SubSeq(key, Len(split(key)[1]) + 2, Len(key))
Kept(protocol, items) ==
    {<<OptionName(items[i][1]), items[i][2]>> :
        i \in {h \in 1..Len(items) :
                 /\ HasPrefix(items[h][1])
                 /\ PROTOCOL_MAPPING_get(split(items[h][1])[1])
                       = PROTOCOL_MAPPING_get(protocol)}}

\* the cases C18 leaves to others: C20 says what becomes of an sftp pkey,
\* and of two entries that resolve to one option name a dict keeps one
KeyGiven(protocol, items) ==
    /\ PROTOCOL_MAPPING_get(protocol) = sftp
    /\ \E i \in 1..Len(items) : items[i][1] = dotted(sftp, opt_pkey)
NamesDistinct(protocol, items) ==
    \A p, q \in Kept(protocol, items) : p[1] = q[1] => p = q

\* C18: option filtering.  Every construction succeeds (no sftp pkey given,
\* no two entries for one option), and storage_options then holds exactly the
\* entries of the argument whose key prefix resolves to the resolved protocol,
\* under their option names, values unchanged; the others are dropped without
\* an error.
C18_OptionFiltering ==
    \A c \in Callers :
        (/\ Built(c)
         /\ ~KeyGiven(ret[c].args.protocol, ret[c].args.storage_options)
         /\ NamesDistinct(ret[c].args.protocol, ret[c].args.storage_options)) =>
            /\ ret[c].kind = "return"
            /\ Pairs(ret[c].val.storage_options)
                  = Kept(ret[c].args.protocol, ret[c].args.storage_options)

Given(items, key) ==
    IF \E i \in 1..Len(items) : items[i][1] = key
    THEN items[CHOOSE i \in 1..Len(items) : items[i][1] = key][2]
    ELSE None

C21_DefaultPollInterval ==
    [][\A c \in Callers : \A s \in StateIds :
          acquire_lock_default(c, s) =>
             /\ pc'[c] = "acq_poll"
             /\ sleep_seconds(c)' = lock_retry_seconds
      ]_vars

\* C22: release removes only the holder's own lock.  When a holder whose own
\* lock has expired leaves its section while another caller, which that lock
\* had turned away and which reclaimed it when it was stale, is in its section
\* with its fresh lock in the lock file, that lock file is still there,
\* unchanged, after the exit.
C22_ReleaseSparesOthersLock ==
    [][\A c \in Callers : \A d \in Callers \ {c} :
          (/\ pc[c] = "cs" /\ pc'[c] # "cs"
           /\ own[c] > lock_timeout_seconds
           /\ InSection(d, sid[c]) /\ trues[d] > 0
           /\ own[d] <= lock_timeout_seconds
           /\ Fresh(sid[c]) /\ lockAge[sid[c]] = own[d]) =>
             (lockFile'[sid[c]] = "written" /\ lockAge'[sid[c]] = lockAge[sid[c]])
      ]_vars

\* C23: an acquisition that never got the lock removes nothing.  When
\* acquire_lock ends before it has written the lock file (given up while it
\* polls or waits, or failed in is_locked or in opening the file) and another
\* caller is in its section with its lock in the lock file, the lock file is
\* unchanged.
C23_FailedAcquireRemovesNothing ==
    [][\A c \in Callers : \A d \in Callers \ {c} :
          (/\ pc[c] \in {"acq_poll", "acq_finally"} /\ pc'[c] = "idle"
           /\ InSection(d, sid[c])
           /\ lockFile[sid[c]] = "written") =>
             (lockFile'[sid[c]] = "written" /\ lockAge'[sid[c]] = lockAge[sid[c]])
      ]_vars

\* one whole call of set, get, delete, clear_all or get_state_ids by c
CrudStep(c) ==
    \/ \E state \in MeltanoStates : set(c, state)
    \/ \E s \in StateIds : get(c, s, "none")
    \/ \E s \in StateIds : delete(c, s)
    \/ clear_all(c)
    \/ call_get_state_ids(c, None)

\* C24: a held lock stays visible.  While a holder is in its section, its
\* lock is in the lock file and lock_timeout_seconds have not passed since it
\* wrote it, no set, get, delete, get_state_ids or clear_all of any caller
\* changes that: the lock is there afterwards, so that is_locked goes on
\* returning True.
C24_HeldLockStaysVisible ==
    [][\A d \in Callers : \A s \in StateIds :
          (/\ InSection(d, s) /\ own[d] <= lock_timeout_seconds
           /\ Fresh(s)
           /\ \E c \in Callers : CrudStep(c)) =>
             (lockFile'[s] = "written" /\ lockAge'[s] = lockAge[s])
      ]_vars

\* C25: best-effort release.  Leaving the protected section raises nothing of
\* its own when the lock file is already absent or when the backend refuses
\* its deletion: the caller gets the normal completion, or the very failure
\* raised in the section.  A lock file absent at the exit is absent after it,
\* and is_locked answers False for an absent lock file.
C25_BestEffortRelease ==
    /\ [][\A c \in Callers :
             (pc[c] = "cs" /\ pc'[c] # "cs") =>
                /\ pc'[c] = "idle"
                /\ \/ ret'[c] = Returned("acquire_lock", None, 238)
                   \/ \E e \in SectionFailures : ret'[c] = Raised("acquire_lock", e)
                /\ \A e \in SectionFailures :
                      (acquire_exit(c, e) \/ acquire_exit_refused(c, e))
                         => ret'[c] = Raised("acquire_lock", e)
                /\ (acquire_exit(c, "ok") \/ acquire_exit_refused(c, "ok"))
                      => ret'[c] = Returned("acquire_lock", None, 238)
                /\ lockFile[sid[c]] = "absent" => lockFile'[sid[c]] = "absent"
         ]_vars
    /\ [][\A c \in Callers : \A s \in StateIds :
             (is_locked(c, s) /\ lockFile[s] = "absent")
                => ret'[c] = Returned("is_locked", FALSE, 160)
         ]_vars

\* C25 happens: a section ended by a failure, the backend refused to delete
\* the lock file, which is still there (no other caller has done anything),
\* and the caller got the failure of the section.
C25_Witness ==
    \E c \in Callers :
        /\ pc[c] = "idle"
        /\ ret[c] = Raised("acquire_lock", "RuntimeError")
        /\ lockFile[sid[c]] = "written"
        /\ \A d \in Callers \ {c} : pc[d] = "idle" /\ ret[d] = NoCall

\* C26: order of the acquire steps.  A caller starts polling only through
\* acquire_lock, which has ensured the directory before the first poll; it
\* comes to open the lock file only from a poll that returned False (file
\* absent, or stale and removed), and from there to the write without a
\* sleep; the write puts the current time into the file, whatever it held;
\* and the protected section is entered only from the completed write.
C26_AcquireOrder ==
    [][\A c \in Callers :
          /\ (pc'[c] = "acq_poll" /\ pc[c] # "acq_poll") =>
                (pc[c] = "idle" /\ dir'[sid'[c]] /\ trues'[c] = 0 /\ timer'[c] = 0)
          /\ (pc'[c] = "acq_reclaim" /\ pc[c] # "acq_reclaim") =>
                (pc[c] = "acq_poll" /\ Stale(sid[c]))
          /\ (pc'[c] = "acq_open" /\ pc[c] # "acq_open") =>
                \/ pc[c] = "acq_poll" /\ lockFile[sid[c]] = "absent"
                \/ pc[c] = "acq_reclaim"
          /\ (pc'[c] = "acq_write" /\ pc[c] # "acq_write") => pc[c] = "acq_open"
          /\ pc[c] \in {"acq_reclaim", "acq_open", "acq_write"} =>
                (timer[c] = 0 /\ timer'[c] = 0 /\ sleeps'[c] = sleeps[c])
          /\ (pc[c] = "acq_write" /\ pc'[c] # "acq_write") =>
                /\ pc'[c] = "cs"
                /\ lockFile[sid[c]] # "absent" =>
                      (lockFile'[sid[c]] = "written" /\ lockAge'[sid[c]] = 0)
          /\ (pc'[c] = "cs" /\ pc[c] # "cs") => pc[c] = "acq_write"
      ]_vars

\* C26 happens: a caller that was turned away once has just entered its
\* section: the directory is there and the lock file holds the current time.
C26_Witness ==
    \E c \in Callers :
        /\ pc[c] = "cs" /\ own[c] = 0
        /\ trues[c] = 1
        /\ dir[sid[c]]
        /\ lockFile[sid[c]] = "written" /\ lockAge[sid[c]] = 0

\* C27: construction validates nothing but the SFTP key.  A construction
\* that fails has the resolved protocol sftp and a pkey option that no key
\* class loads; every other construction succeeds, whatever the shape of the
\* keys of storage_options.
C27_OnlyKeyValidated ==
    \A c \in Callers :
        LET items == ret[c].args.storage_options
            pkey == Given(items, dotted(sftp, opt_pkey))
            passphrase == Given(items, dotted(sftp, opt_passphrase))
        IN  (Built(c) /\ ret[c].kind = "raise") =>
                /\ PROTOCOL_MAPPING_get(ret[c].args.protocol) = sftp
                /\ pkey # None
                /\ \A i \in 1..Len(key_classes) :
                      from_private_key(key_classes[i], pkey, passphrase) = SSHException

\* C28: is_locked answers for any lock content.  Whenever the lock file
\* exists, be it empty because another caller has opened it and not yet
\* written its timestamp, is_locked raises nothing, and a poll of acquire_lock
\* made at that moment does not end the acquisition with a failure.
C28_IsLockedTotal ==
    [][\A c \in Callers :
          /\ \A s \in StateIds :
                (is_locked(c, s) /\ lockFile[s] # "absent") => ret'[c].kind # "raise"
          /\ (acquire_poll(c) /\ lockFile[sid[c]] # "absent") =>
                (pc'[c] # "acq_finally" /\ ret'[c].kind # "raise")
      ]_vars

\* one step of the lock operations by c: a direct is_locked call, or a step
\* of acquire_lock from its mkdir to its release
LockStep(c) ==
    \/ \E s \in StateIds : is_locked(c, s)
    \/ reclaim(c)
    \/ \E s \in StateIds, r \in RetryChoices : acquire_lock(c, s, r)
    \/ acquire_poll(c)
    \/ acquire_open(c)
    \/ acquire_write(c)
    \/ \E outcome \in {"ok"} \cup SectionFailures : acquire_exit(c, outcome)
    \/ acquire_finally(c)

\* what get(state_id) finds when the backend read succeeds
Found(s) ==
    IF stateFile[s] = NoFile THEN None
    ELSE IF Decodable(stateFile[s].text) THEN from_file(s, stateFile[s].text)
    ELSE Str(<<"J", "S", "O", "N", "D", "e", "c", "o", "d", "e", "E", "r", "r", "o", "r">>)

\* C29: lock operations leave the state document alone.  No step of is_locked
\* or of acquire_lock (directory creation, poll, reclaim, lock write,
\* release) creates, changes or removes a state.json: get finds the same for
\* every state_id before and after, and get_state_ids() lists the same.
C29_LockLeavesStateAlone ==
    [][\/ /\ stateFile' = stateFile
          /\ \A s \in StateIds : Found(s)' = Found(s)
          /\ get_state_ids' = get_state_ids
       \/ \A c \in Callers : ~LockStep(c)
      ]_vars

\* C29 happens: the client that set a state for job1 has since gone through
\* the acquire steps for job1 and is in its section, and the document is the
\* one it set.
C29_Witness ==
    \E c \in StoreClients :
        /\ InSection(c, "job1")
        /\ setlog["job1"] # <<>>
        /\ stateFile["job1"] = File(json(setlog["job1"][Len(setlog["job1"])]))
        /\ get_state_ids = {"job1"}

\* one step by c of an operation called for state_id s: set, delete,
\* is_locked, or acquire_lock from its mkdir to its release
StepOn(c, s) ==
    \/ \E state \in MeltanoStates : state.state_id = s /\ set(c, state)
    \/ delete(c, s)
    \/ is_locked(c, s)
    \/ \E r \in RetryChoices : acquire_lock(c, s, r)
    \/ /\ sid[c] = s
       /\ \/ reclaim(c)
          \/ acquire_poll(c)
          \/ acquire_open(c)
          \/ acquire_write(c)
          \/ \E outcome \in {"ok"} \cup SectionFailures : acquire_exit(c, outcome)
          \/ acquire_finally(c)

\* C30: operations are confined to their state_id.  A step of set, delete,
\* is_locked or acquire_lock for one state_id leaves the state.json and the
\* lock file of every other state_id as they are.
C30_ConfinedToStateId ==
    [][\A s \in StateIds : \A o \in StateIds \ {s} :
          \/ /\ stateFile'[o] = stateFile[o]
             /\ lockFile'[o] = lockFile[o]
             /\ lockAge'[o] = lockAge[o]
          \/ \A c \in Callers : ~StepOn(c, s)
      ]_vars

\* C30 happens: job1 has been deleted, directory and all, while job2 keeps
\* its document and the lock of a holder that is in its section.
C30_Witness ==
    \E c \in StoreClients : \E d \in Callers \ {c} :
        /\ ret[c] = Returned("delete", None, 202) /\ sid[c] = "job1"
        /\ ~dir["job1"]
        /\ stateFile["job2"] # NoFile
        /\ InSection(d, "job2") /\ own[d] = 1
        /\ lockFile["job2"] = "written" /\ lockAge["job2"] = 1

\* the state_id directories that hold no state.json (a lock file at most)
Uncommitted == {s \in StateIds : dir[s] /\ stateFile[s] = NoFile}

\* C31: clear_all touches only committed entries.  A state_id directory that
\* holds a lock file but no state.json is the same after clear_all, lock file
\* included, and is not counted: the number returned is the number of
\* state_ids get_state_ids() listed when clear_all started, which are the
\* directories with a state.json.
C31_ClearAllSparesUncommitted ==
    [][\A c \in Callers :
          clear_all(c) =>
             /\ \A s \in Uncommitted :
                   /\ dir'[s]
                   /\ stateFile'[s] = NoFile
                   /\ lockFile'[s] = lockFile[s]
                   /\ lockAge'[s] = lockAge[s]
             /\ ret'[c].kind = "return"
             /\ ret'[c].val = Cardinality(get_state_ids)
             /\ ret'[c].val = Cardinality({s \in StateIds : stateFile[s] # NoFile})
             /\ ret'[c].val = Cardinality({s \in StateIds : dir[s]} \ Uncommitted)
      ]_vars

\* C31 happens: clear_all has returned 1, the one committed state_id is gone,
\* and the directory of the other one, which holds the lock of a caller that
\* has been in its section for the whole timeout and no state.json, is there.
C31_Witness ==
    \E c \in StoreClients : \E d \in Callers \ {c} :
        /\ ret[c] = Returned("clear_all", 1, 219)
        /\ ~dir["job1"]
        /\ "job2" \in Uncommitted
        /\ InSection(d, "job2") /\ own[d] = lock_timeout_seconds
        /\ lockFile["job2"] = "written" /\ lockAge["job2"] = lock_timeout_seconds

====
